---- MODULE Spec2Model ----
(***************************************************************************)
(* A model of package bitread (github.com/markus-wa/gobitread): a BitReader *)
(* that wraps an io.Reader and reads from it on the bit level through a     *)
(* sliding buffer whose last `sled` bytes are carried over to the front on  *)
(* every refill.                                                            *)
(*                                                                          *)
(* A BitReader is a record with the fields of the Go struct.  Each method   *)
(* is an operator from a reader (and its arguments) to the reader after the *)
(* call, together with the value returned.  A Go panic is recorded in the   *)
(* field `panic`; a panicked reader is not used any further.                *)
(*                                                                          *)
(* Machine words (uint64, int64, uint, int) are functions from bit index    *)
(* 0..63 to {0, 1}, bit 0 the least significant, so that shifts keep the    *)
(* width they have in Go.                                                   *)
(***************************************************************************)
EXTENDS Integers, Sequences, FiniteSets, TLC

\* ------------------------------------------------------------------ bounds

\* Buffer sizes tried are sled * k for k in 3..MaxBufMult.
MaxBufMult == 4
\* The longest source tried, in bytes.
MaxSrcLen == 41
\* The deepest chunk nesting tried.
MaxChunks == 2
MaxInside == 2
\* The times a reader is opened.
MaxOpens == 2
\* The bits after which the caller reads no more before it closes the reader.
MaxLifeBits == 33

\* --------------------------------------------------------------- constants

sled == 8
sledMask == sled - 1
sledBits == sled * 8

\* ------------------------------------------------------------------- words

WordBits == 0..63

Pow2(k) == 2 ^ k

\* Bit j (0 = least significant) of the byte b.
Bit(b, j) == (b \div Pow2(j)) % 2

ZeroWord == [i \in WordBits |-> 0]

\* The low 8 bits of a word as a byte: Go's byte(x).
ToByte(w) ==
    w[0] + 2 * w[1] + 4 * w[2] + 8 * w[3] + 16 * w[4] + 32 * w[5] + 64 * w[6] + 128 * w[7]

Min(a, b) == IF a < b THEN a ELSE b

\* s[lo+1..hi] of a sequence, Go's s[lo:hi] (0-based, hi exclusive).
Slice(s, lo, hi) == [i \in 1..(hi - lo) |-> s[lo + i]]

\* dst with src written over it from 0-based index at: Go's copy(dst[at:], src).
Overwrite(dst, at, src) ==
    [i \in 1..Len(dst) |-> IF i > at /\ i <= at + Len(src) THEN src[i - at] ELSE dst[i]]

\* ------------------------------------------------------------------ source

VARIABLES
    src,      \* the bytes of the underlying stream
    br,       \* the BitReader
    tw,       \* a second BitReader over the same bytes, driven by the same calls
    call,     \* the call that has just been made: its name, argument, the position
              \* before it, and what it returned on br and on tw
    consumed, \* the bits asked for by the calls since Open
    begun,    \* the chunks the caller has begun and not ended: where, how long
    inside,   \* the calls the caller made since it began the outermost of them
    lives     \* the times Open has been called on br

vars == <<src, br, tw, call, consumed, begun, inside, lives>>

\* A BitReader as new(BitReader) leaves it.  srcPos, seekable and maxRead are the
\* state of the underlying reader: its read position in bytes, whether it is an
\* io.Seeker, and the most bytes one Read returns (0: as many as asked for).
NewReader ==
    [ open         |-> FALSE,
      buffer       |-> << >>,
      offset       |-> 0,
      bitsInBuffer |-> 0,
      lazyPosition |-> 0,
      chunkTargets |-> << >>,
      endReached   |-> FALSE,
      srcPos       |-> 0,
      seekable     |-> FALSE,
      maxRead      |-> 0,
      panic        |-> "" ]

Panic(r, what) == [r EXCEPT !.panic = what]

Panicked(r) == r.panic # ""

\* underlying.Read(buffer[at:]) of a bytes.Reader: at the end of the bytes it
\* returns 0 and io.EOF, otherwise the bytes that fit and no error.
Read(r, at) ==
    LET room  == Len(r.buffer) - at
        left  == Len(src) - r.srcPos
        fit   == Min(room, left)
        n     == IF r.maxRead > 0 THEN Min(fit, r.maxRead) ELSE fit
    IN  IF left <= 0
        THEN [r |-> r, n |-> 0, eof |-> TRUE]
        ELSE [r |-> [r EXCEPT !.buffer = Overwrite(@, at, Slice(src, r.srcPos, r.srcPos + n)),
                              !.srcPos = @ + n],
              n |-> n, eof |-> FALSE]

\* --------------------------------------------------------------- positions

LazyPosition(r) == r.lazyPosition

ActualPosition(r) == r.lazyPosition + r.offset

\* ------------------------------------------------------------------ refill

\* A refill that takes the sled from the end of the buffer, as if every window
\* were full.
SledStartAtBufferEnd(r) == Len(r.buffer) - sled

\* Where the sled to carry over starts: the byte after the window.
SledStart(r) == r.bitsInBuffer \div 8

\* A refill that adds a full window to lazyPosition, whatever the window held.
LazyAfterRefillFullWindow(r) == r.lazyPosition + 8 * (Len(r.buffer) - sled)

\* lazyPosition after a refill: the window just left is added to it.
LazyAfterRefill(r) == r.lazyPosition + r.bitsInBuffer

\* A refill that starts the new window at offset 0.
OffsetAfterRefillZero(r) == 0

\* offset after a refill: the sled bits used remain in it.
OffsetAfterRefill(r) == r.offset - r.bitsInBuffer

\* A refill that goes on after a second io.EOF as after a Read of no bytes.
ReadBeyondEndQuietly(r) == r

\* refillBuffer at an io.EOF when the end had been reached before.
ReadBeyondEnd(r) == Panic(r, "unexpected EOF")

refillBuffer(r) ==
    LET from == SledStart(r) IN
    IF from + sled > Len(r.buffer)
    THEN Panic(r, "slice bounds out of range")
    ELSE
    LET r1 == [r EXCEPT !.buffer = Overwrite(@, 0, Slice(@, from, from + sled)),
                        !.offset = OffsetAfterRefill(r),
                        !.lazyPosition = LazyAfterRefill(r)]
        rd == Read(r1, sled)
        r2 == [rd.r EXCEPT !.bitsInBuffer = rd.n * 8]
    IN  IF rd.eof
        THEN IF r2.endReached
             THEN ReadBeyondEnd(r2)
             ELSE [r2 EXCEPT !.bitsInBuffer = @ + sledBits, !.endReached = TRUE]
        ELSE r2

\* The test of advance's loop and of ReadInt's refill.
PastBuffer(r) == r.offset > r.bitsInBuffer

RECURSIVE refillLoop(_)
refillLoop(r) ==
    IF Panicked(r) \/ ~PastBuffer(r) THEN r ELSE refillLoop(refillBuffer(r))

advance(r, bits) == refillLoop([r EXCEPT !.offset = @ + bits])

\* -------------------------------------------------------------------- open

\* An Open that counts every byte read, holding no sled back.
BitsAfterOpenNoSled(bytes) == bytes * 8

\* bitsInBuffer after Open's first fill of that many bytes: the sled is held
\* back unless fewer bytes than a sled were read.
BitsAfterOpen(bytes) ==
    LET bits == bytes * 8 - sledBits IN
    IF bits < 0 THEN bits + sledBits ELSE bits

\* An Open that takes a buffer of exactly twice the sled.
OpenWithBufferTwiceSled(r, size, seekable, maxRead) ==
    IF size % sled # 0
    THEN Panic(r, "Buffer must be a multiple of sled")
    ELSE IF size < sled * 2
    THEN Panic(r, "Buffer must be larger than 2*sled bytes")
    ELSE
    LET r1 == [r EXCEPT !.open = TRUE, !.endReached = FALSE,
                        !.srcPos = 0, !.seekable = seekable, !.maxRead = maxRead,
                        !.buffer = [i \in 1..size |-> 0]]
        rd == Read(r1, 0)
    IN  IF rd.eof
        THEN Panic(rd.r, "EOF")
        ELSE [rd.r EXCEPT !.bitsInBuffer = BitsAfterOpen(rd.n)]

OpenWithBuffer(r, size, seekable, maxRead) ==
    IF size % sled # 0
    THEN Panic(r, "Buffer must be a multiple of sled")
    ELSE IF size <= sled * 2
    THEN Panic(r, "Buffer must be larger than 2*sled bytes")
    ELSE
    LET r1 == [r EXCEPT !.open = TRUE, !.endReached = FALSE,
                        !.srcPos = 0, !.seekable = seekable, !.maxRead = maxRead,
                        !.buffer = [i \in 1..size |-> 0]]
        rd == Read(r1, 0)
    IN  IF rd.eof
        THEN Panic(rd.r, "EOF")
        ELSE [rd.r EXCEPT !.bitsInBuffer = BitsAfterOpen(rd.n)]

Open(r, size, seekable, maxRead) == OpenWithBuffer(r, size, seekable, maxRead)

\* Close; closeable tells whether the underlying reader is an io.ReadCloser, in
\* which case Close closes it and returns at once.  Otherwise the underlying
\* reader and the buffer are dropped and the counters reset.
Close(r, closeable) ==
    IF Panicked(r) THEN r
    ELSE IF closeable
    THEN [r EXCEPT !.open = FALSE]
    ELSE [r EXCEPT !.open = FALSE,
                   !.srcPos = 0, !.seekable = FALSE, !.maxRead = 0,
                   !.buffer = << >>,
                   !.offset = 0,
                   !.bitsInBuffer = 0,
                   !.chunkTargets = << >>,
                   !.lazyPosition = 0]

\* ------------------------------------------------------------------- reads

\* binary.LittleEndian.Uint64(buffer[at:]): nil when fewer than 8 bytes follow at.
HasWord(r, at) == at >= 0 /\ at + 8 <= Len(r.buffer)

Uint64(buffer, at) == [i \in WordBits |-> Bit(buffer[at + (i \div 8) + 1], i % 8)]

\* Whether bit (offset & 7) of buffer[offset >> 3] is set.
\* A ReadBit that takes the bits of a byte from the most significant one.
BitAtMsbFirst(buffer, offset) == Bit(buffer[(offset \div 8) + 1], 7 - (offset % 8)) # 0

BitAt(buffer, offset) == Bit(buffer[(offset \div 8) + 1], offset % 8) # 0

ReadBit(r) ==
    IF Panicked(r) THEN [r |-> r, res |-> FALSE]
    ELSE IF r.offset \div 8 >= Len(r.buffer)
    THEN [r |-> Panic(r, "index out of range"), res |-> FALSE]
    ELSE [r |-> advance(r, 1), res |-> BitAt(r.buffer, r.offset)]

\* A ReadInt that masks the loaded word without shifting it by the bit offset.
IntBitsNoShift(val, bitOffset, n) ==
    [i \in WordBits |-> IF i < n THEN val[i] ELSE 0]

\* uint(val >> bitOffset) & ((1 << n) - 1), for 0 <= n < 64.
IntBits(val, bitOffset, n) ==
    [i \in WordBits |-> IF i < n /\ i + bitOffset <= 63 THEN val[i + bitOffset] ELSE 0]

ReadInt(r, n) ==
    LET byteIndex == r.offset \div 8
        bitOffset == r.offset % 8
    IN  IF Panicked(r) THEN [r |-> r, res |-> ZeroWord]
        ELSE IF ~HasWord(r, byteIndex)
        THEN [r |-> Panic(r, "index out of range"), res |-> ZeroWord]
        ELSE LET r1 == [r EXCEPT !.offset = @ + n]
             IN  [r   |-> IF PastBuffer(r1) THEN refillBuffer(r1) ELSE r1,
                  res |-> IntBits(Uint64(r.buffer, byteIndex), bitOffset, n)]

ReadBitsToByte(r, n) ==
    LET v == ReadInt(r, n) IN [r |-> v.r, res |-> ToByte(v.res)]

readByteInternal(r, bitLevel) ==
    IF Panicked(r) THEN [r |-> r, res |-> 0]
    ELSE IF bitLevel THEN ReadBitsToByte(r, 8)
    ELSE IF r.offset \div 8 >= Len(r.buffer)
    THEN [r |-> Panic(r, "index out of range"), res |-> 0]
    ELSE [r |-> advance(r, 8), res |-> r.buffer[(r.offset \div 8) + 1]]

ReadSingleByte(r) == readByteInternal(r, r.offset % 8 # 0)

\* k calls of readByteInternal, their bytes appended to out.
RECURSIVE readByteLoop(_, _, _, _)
readByteLoop(r, out, k, bitLevel) ==
    IF k = 0 \/ Panicked(r) THEN [r |-> r, res |-> out]
    ELSE LET v == readByteInternal(r, bitLevel)
         IN  readByteLoop(v.r, Append(out, v.res), k - 1, bitLevel)

ReadBits(r, n) ==
    LET bitLevel == r.offset % 8 # 0
        whole    == readByteLoop(r, << >>, n \div 8, bitLevel)
    IN  IF n % 8 = 0 \/ Panicked(whole.r) THEN whole
        ELSE LET v == ReadBitsToByte(whole.r, n % 8)
             IN  [r |-> v.r, res |-> Append(whole.res, v.res)]

\* A shortcut taken without the test for byte alignment.
ShortcutUnaligned(r, n) == r.offset + n * 8 <= r.bitsInBuffer

\* The test of ReadBytesInto's shortcut: byte aligned and all n bytes buffered.
Shortcut(r, n) == r.offset % 8 = 0 /\ r.offset + n * 8 <= r.bitsInBuffer

ReadBytesInto(r, out, n) ==
    IF Panicked(r) THEN [r |-> r, res |-> out]
    ELSE IF Shortcut(r, n)
    THEN IF (r.offset \div 8) + n > Len(r.buffer)
         THEN [r |-> Panic(r, "slice bounds out of range"), res |-> out]
         ELSE [r   |-> advance(r, n * 8),
               res |-> out \o Slice(r.buffer, r.offset \div 8, (r.offset \div 8) + n)]
    ELSE readByteLoop(r, out, n, r.offset % 8 # 0)

ReadBytes(r, n) == ReadBytesInto(r, << >>, n)

\* A ReadCString that keeps the terminating zero byte.
CStringEndAfterZero(b, n) ==
    IF \E i \in 1..Len(b) : b[i] = 0
    THEN CHOOSE i \in 1..Len(b) : b[i] = 0 /\ \A j \in 1..(i - 1) : b[j] # 0
    ELSE n

\* bytes.IndexByte(b, 0), with n for "not found".
CStringEnd(b, n) ==
    IF \E i \in 1..Len(b) : b[i] = 0
    THEN (CHOOSE i \in 1..Len(b) : b[i] = 0 /\ \A j \in 1..(i - 1) : b[j] # 0) - 1
    ELSE n

ReadCString(r, n) ==
    LET v == ReadBytes(r, n)
    IN  IF Panicked(v.r) THEN v
        ELSE [r |-> v.r, res |-> SubSeq(v.res, 1, CStringEnd(v.res, n))]

\* A ReadSignedInt whose right shift is logical: the sign is not extended.
SignedBitsLogical(val, k, n) ==
    LET up  == 64 - k - n
        shl == [i \in WordBits |-> IF i >= up THEN val[i - up] ELSE 0]
        dn  == 64 - n
    IN  [i \in WordBits |-> IF i + dn <= 63 THEN shl[i + dn] ELSE 0]

\* int(int64(val << uint(64 - k - n)) >> (64 - uint(n))), k = offset & 31, for
\* 0 <= n <= 64 - k.  A shift by 64 or more gives 0 to the left and the sign to
\* the right.
SignedBits(val, k, n) ==
    LET up  == 64 - k - n
        shl == [i \in WordBits |-> IF i >= up THEN val[i - up] ELSE 0]
        dn  == 64 - n
    IN  [i \in WordBits |-> IF i + dn <= 63 THEN shl[i + dn] ELSE shl[63]]

ReadSignedInt(r, n) ==
    LET byteIndex == (r.offset \div 8) - ((r.offset \div 8) % 4)
    IN  IF Panicked(r) THEN [r |-> r, res |-> ZeroWord]
        ELSE IF ~HasWord(r, byteIndex)
        THEN [r |-> Panic(r, "index out of range"), res |-> ZeroWord]
        ELSE [r   |-> advance(r, n),
              res |-> SignedBits(Uint64(r.buffer, byteIndex), r.offset % 32, n)]

\* ------------------------------------------------------------------ chunks

\* stack.push, stack.pop and stack.top; pop and top panic on an empty stack.
push(s, v) == Append(s, v)

\* A pop that removes the item added first.
popOldest(s) == [s |-> SubSeq(s, 2, Len(s)), v |-> s[1]]

pop(s) == [s |-> SubSeq(s, 1, Len(s) - 1), v |-> s[Len(s)]]

top(s) == s[Len(s)]

BeginChunk(r, n) ==
    IF Panicked(r) THEN r
    ELSE [r EXCEPT !.chunkTargets = push(@, ActualPosition(r) + n)]

\* A ChunkFinished that is true only once the end of the chunk has been passed.
ChunkFinishedWhenPassed(r) ==
    IF Panicked(r) THEN [r |-> r, res |-> FALSE]
    ELSE IF Len(r.chunkTargets) = 0
    THEN [r |-> Panic(r, "index out of range"), res |-> FALSE]
    ELSE [r |-> r, res |-> top(r.chunkTargets) < ActualPosition(r)]

ChunkFinished(r) ==
    IF Panicked(r) THEN [r |-> r, res |-> FALSE]
    ELSE IF Len(r.chunkTargets) = 0
    THEN [r |-> Panic(r, "index out of range"), res |-> FALSE]
    ELSE [r |-> r, res |-> top(r.chunkTargets) <= ActualPosition(r)]

\* A Skip that seeks as soon as more than the buffered bits are skipped.
UseSeekPastBuffer(r, n) == n > (r.bitsInBuffer - r.offset) /\ r.seekable

\* Whether Skip(n) seeks: more than the buffered bits and the sled are skipped,
\* and the underlying reader is an io.Seeker.
UseSeek(r, n) == n > (r.bitsInBuffer - r.offset) + sledBits /\ r.seekable

\* The bytes Skip(n) asks the io.Seeker to move from its current position.
SeekDistance(r, n) == ((n - (r.bitsInBuffer - r.offset)) \div 8) - sled

\* bitsInBuffer after the read that follows the seek.
BitsAfterSeek(newBytes) ==
    LET bits == newBytes * 8 - sledBits IN
    IF newBytes <= sled THEN bits + sledBits ELSE bits

Skip(r, n) ==
    IF Panicked(r) THEN r
    ELSE IF UseSeek(r, n)
    THEN LET unbufferedSkipBits == n - (r.bitsInBuffer - r.offset)
             globalOffset == r.srcPos + SeekDistance(r, n)
         IN  IF globalOffset < 0
             THEN Panic(r, "bytes.Reader.Seek: negative position")
             ELSE LET r1 == [r EXCEPT !.srcPos = globalOffset,
                                      !.lazyPosition = globalOffset * 8]
                      rd == Read(r1, 0)
                  IN  IF rd.eof
                      THEN Panic(rd.r, "EOF")
                      ELSE [rd.r EXCEPT !.offset = unbufferedSkipBits % (sledMask + 1),
                                        !.bitsInBuffer = BitsAfterSeek(rd.n)]
    ELSE advance(r, n)

\* An EndChunk that also aborts when the chunk was read exactly to its end.
ExceededOrDone(delta) == delta <= 0

\* EndChunk's test for a chunk that was read past its end.
Exceeded(delta) == delta < 0

EndChunk(r) ==
    IF Panicked(r) THEN r
    ELSE IF Len(r.chunkTargets) = 0 THEN Panic(r, "index out of range")
    ELSE LET popped == pop(r.chunkTargets)
             target == popped.v
             r1     == [r EXCEPT !.chunkTargets = popped.s]
             delta  == target - ActualPosition(r1)
         IN  IF Exceeded(delta)
             THEN Panic(r1, "Someone read beyond a chunk boundary")
             ELSE LET r2 == IF delta > 0 THEN Skip(r1, delta) ELSE r1
                  IN  IF ~Panicked(r2) /\ target # ActualPosition(r2)
                      THEN Panic(r2, "Skipping data failed")
                      ELSE r2

\* ----------------------------------------------------------------- sources

\* Byte j (from 0) of the pattern source: every byte value occurs, odd stride.
PatternByte(j) == (j * 89 + 165) % 256

Pattern(len) == [i \in 1..len |-> PatternByte(i - 1)]

\* The ints of TestReadSignedInt, little endian: MaxInt32, MinInt32, 0, 0x4ac71bf.
SignedSrc == <<255, 255, 255, 127,  0, 0, 0, 128,  0, 0, 0, 0,  191, 113, 172, 4>>

\* "test\0xx", then bytes without a zero, then a zero across the first window.
CStringSrc == <<116, 101, 115, 116, 0, 120, 120>>

LongCStringSrc == [i \in 1..26 |-> IF i \in {5, 18, 19} THEN 0 ELSE PatternByte(i)]

SrcLens == {1, 7, 12, 24, 25, 27} \cup ((MaxSrcLen - 1)..MaxSrcLen)

Sources == {Pattern(len) : len \in SrcLens} \cup {SignedSrc, CStringSrc, LongCStringSrc}

BufSizes == {sled * k : k \in 3..MaxBufMult}

SrcBits == Len(src) * 8

\* Bit p of the stream: bit (p mod 8) of byte (p div 8).
SrcBit(p) == Bit(src[(p \div 8) + 1], p % 8)

\* The widths and lengths the calls are tried with.
IntWidths == {0, 1, 5, 8, 17, 32}
ByteWidths == {0, 3, 8}
BitsLens == {3, 16, 20}
BytesLens == {0, 1, 3, 17}
CStringLens == {4, 7}

\* ------------------------------------------------------------------- state

NoCall == [op |-> "", n |-> 0, pos0 |-> 0, res |-> 0, tres |-> 0]

Init ==
    /\ src \in Sources
    /\ br = NewReader
    /\ tw = NewReader
    /\ call = NoCall
    /\ consumed = 0
    /\ begun = <<>>
    /\ inside = 0
    /\ lives = 0

\* The caller makes a call when the reader is open, has not panicked, and the call
\* before has returned.
Ready == br.open /\ ~Panicked(br) /\ call.op = ""

\* One call made on both readers: a and b are what it gave on br and on tw.
Called(op, n, width, a, b) ==
    /\ br' = a.r
    /\ tw' = b.r
    /\ call' = [op |-> op, n |-> n, pos0 |-> ActualPosition(br), res |-> a.res, tres |-> b.res]
    /\ consumed' = consumed + width
    /\ UNCHANGED <<src, begun, inside, lives>>

\* The caller takes the result of the call.
Return ==
    /\ call.op # ""
    /\ ~Panicked(br)
    /\ call' = NoCall
    /\ UNCHANGED <<src, br, tw, consumed, begun, inside, lives>>

\* Open on a fresh bytes.Reader of the bytes; the second reader gets another
\* buffer size.
OpenStep ==
    /\ ~br.open
    /\ ~Panicked(br)
    /\ call.op = ""
    /\ \E size \in BufSizes, other \in BufSizes :
          /\ other # size
          /\ br' = Open(br, size, TRUE, 0)
          /\ tw' = Open(tw, other, TRUE, 0)
          /\ call' = [op |-> "Open", n |-> size, pos0 |-> ActualPosition(br), res |-> 0, tres |-> 0]
    /\ consumed' = 0
    /\ lives' = lives + 1
    /\ UNCHANGED <<src, begun, inside>>

ReadBitStep ==
    /\ Ready
    /\ Called("ReadBit", 1, 1, ReadBit(br), ReadBit(tw))

ReadIntStep ==
    /\ Ready
    /\ \E n \in IntWidths : Called("ReadInt", n, n, ReadInt(br, n), ReadInt(tw, n))

ReadSignedIntStep ==
    /\ Ready
    /\ \E n \in IntWidths :
          Called("ReadSignedInt", n, n, ReadSignedInt(br, n), ReadSignedInt(tw, n))

ReadBitsToByteStep ==
    /\ Ready
    /\ \E n \in ByteWidths :
          Called("ReadBitsToByte", n, n, ReadBitsToByte(br, n), ReadBitsToByte(tw, n))

ReadBitsStep ==
    /\ Ready
    /\ \E n \in BitsLens : Called("ReadBits", n, n, ReadBits(br, n), ReadBits(tw, n))

ReadSingleByteStep ==
    /\ Ready
    /\ Called("ReadSingleByte", 8, 8, ReadSingleByte(br), ReadSingleByte(tw))

ReadBytesStep ==
    /\ Ready
    /\ \E n \in BytesLens :
          Called("ReadBytes", n, n * 8, ReadBytes(br, n), ReadBytes(tw, n))

ReadCStringStep ==
    /\ Ready
    /\ \E n \in CStringLens :
          Called("ReadCString", n, n * 8, ReadCString(br, n), ReadCString(tw, n))

Next ==
    \/ OpenStep
    \/ Return
    \/ ReadBitStep
    \/ ReadIntStep
    \/ ReadSignedIntStep
    \/ ReadBitsToByteStep
    \/ ReadBitsStep
    \/ ReadSingleByteStep
    \/ ReadBytesStep
    \/ ReadCStringStep

Spec == Init /\ [][Next]_vars

\* ------------------------------------------------------- chunks: the state

\* The caller's chunk lengths in bits: empty, within a byte, a few bytes, and more
\* than any buffer holds.
ChunkLens == {0, 2, 17, 200}

InitChunk ==
    /\ src = Pattern(MaxSrcLen)
    /\ br = NewReader
    /\ tw = NewReader
    /\ call = NoCall
    /\ consumed = 0
    /\ begun = <<>>
    /\ inside = 0
    /\ lives = 0

\* Open on a bytes.Reader, which is an io.Seeker; the second reader has the same
\* buffer size over a reader of the same bytes that is not an io.Seeker.
OpenChunkStep ==
    /\ ~br.open
    /\ ~Panicked(br)
    /\ call.op = ""
    /\ \E size \in BufSizes :
          /\ br' = Open(br, size, TRUE, 0)
          /\ tw' = Open(tw, size, FALSE, 0)
          /\ call' = [op |-> "Open", n |-> size, pos0 |-> ActualPosition(br), res |-> 0, tres |-> 0]
    /\ consumed' = 0
    /\ lives' = lives + 1
    /\ UNCHANGED <<src, begun, inside>>

\* Inside a chunk the caller makes at most MaxInside calls before it ends it.
MayCall == Ready /\ (begun = <<>> \/ inside < MaxInside)

CountCall == inside' = IF begun = <<>> THEN 0 ELSE inside + 1

ReadInChunk(op, n, a, b) ==
    /\ MayCall
    /\ br' = a.r
    /\ tw' = b.r
    /\ call' = [op |-> op, n |-> n, pos0 |-> ActualPosition(br), res |-> a.res, tres |-> b.res]
    /\ consumed' = consumed + n
    /\ CountCall
    /\ UNCHANGED <<src, begun, lives>>

ChunkReadBitStep == ReadInChunk("ReadBit", 1, ReadBit(br), ReadBit(tw))

ChunkReadIntStep == ReadInChunk("ReadInt", 17, ReadInt(br, 17), ReadInt(tw, 17))

\* The caller begins chunks that the stream holds.
BeginChunkStep ==
    /\ MayCall
    /\ Len(begun) < MaxChunks
    /\ \E n \in ChunkLens :
          /\ ActualPosition(br) + n <= SrcBits
          /\ br' = BeginChunk(br, n)
          /\ tw' = BeginChunk(tw, n)
          /\ begun' = Append(begun, [p |-> ActualPosition(br), n |-> n])
          /\ call' = [op |-> "BeginChunk", n |-> n, pos0 |-> ActualPosition(br),
                      res |-> 0, tres |-> 0]
    /\ CountCall
    /\ UNCHANGED <<src, consumed, lives>>

\* The call records where the chunk began, whether Skip sought, and whether the
\* second reader was still running when the call was made.
EndChunkStep ==
    /\ Ready
    /\ begun # <<>>
    /\ LET c    == begun[Len(begun)]
           left(r) == c.p + c.n - ActualPosition(r)
       IN  /\ br' = EndChunk(br)
           /\ tw' = EndChunk(tw)
           /\ call' = [op |-> "EndChunk", n |-> c.n, pos0 |-> ActualPosition(br),
                       res  |-> [p |-> c.p, seek |-> UseSeek(br, left(br))],
                       tres |-> [p |-> c.p, seek |-> UseSeek(tw, left(tw)),
                                 live |-> ~Panicked(tw)]]
           /\ consumed' = IF left(br) > 0 THEN consumed + left(br) ELSE consumed
    /\ begun' = SubSeq(begun, 1, Len(begun) - 1)
    /\ inside' = IF Len(begun) = 1 THEN 0 ELSE inside
    /\ UNCHANGED <<src, lives>>

\* The caller asks whether the chunk it is in is finished; the call records the
\* chunk stack as it was before.
ChunkFinishedStep ==
    /\ Ready
    /\ begun # <<>>
    /\ br' = ChunkFinished(br).r
    /\ tw' = ChunkFinished(tw).r
    /\ call' = [op |-> "ChunkFinished", n |-> 0, pos0 |-> ActualPosition(br),
                res  |-> [fin |-> ChunkFinished(br).res, stack |-> br.chunkTargets],
                tres |-> [fin |-> ChunkFinished(tw).res, stack |-> tw.chunkTargets]]
    /\ UNCHANGED <<src, consumed, begun, inside, lives>>

NextChunk ==
    \/ OpenChunkStep
    \/ Return
    \/ ChunkReadBitStep
    \/ ChunkReadIntStep
    \/ BeginChunkStep
    \/ EndChunkStep
    \/ ChunkFinishedStep

SpecChunk == InitChunk /\ [][NextChunk]_vars

\* ---------------------------------------------------- lifecycle: the state

LifeSources == {Pattern(7), Pattern(27)}

\* Buffer lengths tried for Open: the valid ones and lengths around them.
LifeSizes == {0, sled, sled + 4, 2 * sled, 2 * sled + 1, 3 * sled - 1} \cup BufSizes

InitLife ==
    /\ src \in LifeSources
    /\ br = NewReader
    /\ tw = NewReader
    /\ call = NoCall
    /\ consumed = 0
    /\ begun = <<>>
    /\ inside = 0
    /\ lives = 0

\* Open on a fresh bytes.Reader of the bytes, on a reader that is new or has been
\* closed; the second reader is a new reader opened on the same bytes.
OpenLifeStep ==
    /\ ~br.open
    /\ ~Panicked(br)
    /\ call.op = ""
    /\ lives < MaxOpens
    /\ \E size \in LifeSizes :
          /\ br' = Open(br, size, TRUE, 0)
          /\ tw' = Open(NewReader, size, TRUE, 0)
          /\ call' = [op |-> "Open", n |-> size, pos0 |-> ActualPosition(br), res |-> 0, tres |-> 0]
    /\ consumed' = 0
    /\ lives' = lives + 1
    /\ UNCHANGED <<src, begun, inside>>

\* Close on a reader whose underlying reader is an io.ReadCloser or is not.  The
\* caller forgets the chunks it had begun.
CloseStep ==
    /\ Ready
    /\ \E closeable \in BOOLEAN :
          /\ br' = Close(br, closeable)
          /\ call' = [op |-> "Close", n |-> IF closeable THEN 1 ELSE 0,
                      pos0 |-> ActualPosition(br), res |-> 0, tres |-> 0]
    /\ begun' = <<>>
    /\ inside' = 0
    /\ UNCHANGED <<src, tw, consumed, lives>>

\* The widths the caller reads in a life, as long as it has asked for fewer than
\* MaxLifeBits bits in it.
LifeWidths == {5, 32}

LifeReadStep ==
    /\ Ready
    /\ consumed < MaxLifeBits
    /\ \E n \in LifeWidths : Called("ReadInt", n, n, ReadInt(br, n), ReadInt(tw, n))

\* The caller begins one chunk at a time, in the reader's first life.
LifeBeginChunkStep ==
    /\ lives = 1
    /\ begun = <<>>
    /\ BeginChunkStep

NextLife ==
    \/ OpenLifeStep
    \/ Return
    \/ LifeReadStep
    \/ LifeBeginChunkStep
    \/ CloseStep

SpecLife == InitLife /\ [][NextLife]_vars

\* -------------------------------------------------------- what is expected

\* The bits of a word as an int, when bits 31..63 agree (the value fits int32).
FitsInt32(w) == \A i \in 31..63 : w[i] = w[31]

Low31(w) ==
    LET RECURSIVE sum(_)
        sum(i) == IF i > 30 THEN 0 ELSE w[i] * Pow2(i) + sum(i + 1)
    IN  sum(0)

ToInt32(w) == IF w[31] = 1 THEN (Low31(w) - 2147483647) - 1 ELSE Low31(w)

\* a + b on 64 bits, and w * 2^n.
WordAdd(a, b) ==
    LET carry[i \in 0..63] == IF i = 0 THEN 0 ELSE (a[i - 1] + b[i - 1] + carry[i - 1]) \div 2
    IN  [i \in WordBits |-> (a[i] + b[i] + carry[i]) % 2]

WordShl(w, n) == [i \in WordBits |-> IF i >= n THEN w[i - n] ELSE 0]

\* The unsigned and the two's-complement integer made of stream bits p..p+n-1.
SrcWord(p, n) == [i \in WordBits |-> IF i < n THEN SrcBit(p + i) ELSE 0]

SrcSignedWord(p, n) == [i \in WordBits |-> SrcBit(p + (IF i < n THEN i ELSE n - 1))]

\* The byte made of stream bits p..p+7, and the n bytes that follow p.
SrcByteAt(p) == ToByte([i \in WordBits |-> IF i < 8 THEN SrcBit(p + i) ELSE 0])

SrcBytes(p, n) == [j \in 1..n |-> SrcByteAt(p + 8 * (j - 1))]

ReadOps ==
    {"ReadBit", "ReadInt", "ReadSignedInt", "ReadBitsToByte", "ReadBits",
     "ReadSingleByte", "ReadBytes", "ReadCString"}

\* The bits a read call asks for.
CallWidth ==
    CASE call.op = "ReadBit" -> 1
      [] call.op = "ReadSingleByte" -> 8
      [] call.op \in {"ReadBytes", "ReadCString"} -> 8 * call.n
      [] OTHER -> call.n

\* The call just made was a read that stays inside the source.
ReadInside == call.op \in ReadOps /\ call.pos0 + CallWidth <= SrcBits

\* The call just made ran refillBuffer.
Refilled == call.pos0 < br.lazyPosition

\* ------------------------------------------------------------------ claims

\* C1: for the same bytes and the same reads inside the source, a reader with
\* another valid buffer size returns the same values and stands at the same
\* ActualPosition after every call (in Spec the second reader tw always has a
\* buffer size other than br's).
C1_BufferSizeIsNotObservable ==
    ReadInside =>
        /\ Panicked(br) = Panicked(tw)
        /\ ~Panicked(br) =>
              /\ call.res = call.tres
              /\ ActualPosition(br) = ActualPosition(tw)

\* A read during which one reader refilled and the other did not.
C1_Witness ==
    /\ ReadInside
    /\ ~Panicked(br)
    /\ Len(br.buffer) # Len(tw.buffer)
    /\ Refilled
    /\ call.pos0 >= tw.lazyPosition
    /\ call.op = "ReadInt"
    /\ call.n = 32

\* C2: ActualPosition() is 0 after Open, every read that returns adds its bit
\* width (ReadBit 1, ReadInt/ReadSignedInt/ReadBitsToByte/ReadBits n,
\* ReadSingleByte 8, ReadBytes/ReadCString 8n), and so the position is the sum
\* of the widths asked for since Open, whatever refills happened.
C2_PositionIsSumOfWidths ==
    ~Panicked(br) =>
        /\ ActualPosition(br) = consumed
        /\ call.op = "Open" => ActualPosition(br) = 0
        /\ call.op \in ReadOps => ActualPosition(br) = call.pos0 + CallWidth

\* A ReadBytes(17) that refilled, in a reader that had refilled before.
C2_Witness ==
    /\ ~Panicked(br)
    /\ call.op = "ReadBytes"
    /\ call.n = 17
    /\ Refilled
    /\ br.lazyPosition >= 2 * 8 * (Len(br.buffer) - sled)
    /\ call.pos0 % 8 # 0
    /\ ActualPosition(br) = call.pos0 + 136

\* The widths n, m tried for a read of n bits followed by one of m bits.
SplitWidths == {<<0, 32>>, <<1, 31>>, <<5, 17>>, <<8, 8>>, <<17, 15>>, <<32, 0>>}

\* C3: ReadInt(n), 0 <= n <= 32, at position p returns the integer whose bit i
\* is stream bit p+i; and reading n bits and then m bits (n+m <= 32) gives lo and
\* hi with lo + hi * 2^n what one ReadInt(n+m) from p gives, also across a refill.
C3_ReadIntIsLittleEndianPrefix ==
    /\ (call.op = "ReadInt" /\ ReadInside) =>
          /\ ~Panicked(br)
          /\ call.res = SrcWord(call.pos0, call.n)
    /\ Ready =>
          \A w \in SplitWidths :
              ActualPosition(br) + w[1] + w[2] <= SrcBits =>
                  LET lo    == ReadInt(br, w[1])
                      hi    == ReadInt(lo.r, w[2])
                      whole == ReadInt(br, w[1] + w[2])
                  IN  /\ ~Panicked(hi.r)
                      /\ ~Panicked(whole.r)
                      /\ WordAdd(lo.res, WordShl(hi.res, w[1])) = whole.res
                      /\ ActualPosition(hi.r) = ActualPosition(whole.r)

\* A ReadInt(17) at an odd bit offset whose bits lie on both sides of a refill.
C3_Witness ==
    /\ call.op = "ReadInt"
    /\ call.n = 17
    /\ ReadInside
    /\ ~Panicked(br)
    /\ call.pos0 % 8 = 5
    /\ Refilled
    /\ br.offset > 0
    /\ call.res = SrcWord(call.pos0, 17)
    /\ call.res # ZeroWord

\* C4: ReadSignedInt(n), 1 <= n <= 32, returns the two's-complement value of the
\* next n bits: its low n bits are those ReadInt(n) gives from the same state, it
\* is negative exactly when stream bit p+n-1 is set, and the 32-bit reads of
\* 0x7FFFFFFF, 0x80000000 and 0 give MaxInt32, MinInt32 and 0.
C4_ReadSignedIntIsTwosComplement ==
    /\ (call.op = "ReadSignedInt" /\ call.n >= 1 /\ ReadInside) =>
          /\ ~Panicked(br)
          /\ call.res = SrcSignedWord(call.pos0, call.n)
          /\ (call.res[63] = 1) <=> (SrcBit(call.pos0 + call.n - 1) = 1)
          /\ (src = SignedSrc /\ call.n = 32 /\ call.pos0 \in {0, 32, 64}) =>
                /\ FitsInt32(call.res)
                /\ ToInt32(call.res) =
                      CASE call.pos0 = 0  -> 2147483647
                        [] call.pos0 = 32 -> (0 - 2147483647) - 1
                        [] call.pos0 = 64 -> 0
    /\ Ready =>
          \A n \in IntWidths \ {0} :
              ActualPosition(br) + n <= SrcBits =>
                  LET s == ReadSignedInt(br, n)
                      u == ReadInt(br, n)
                  IN  \A i \in 0..(n - 1) : s.res[i] = u.res[i]

\* The read of MinInt32 in the bytes of TestReadSignedInt.
C4_Witness ==
    /\ src = SignedSrc
    /\ call.op = "ReadSignedInt"
    /\ call.n = 32
    /\ call.pos0 = 32
    /\ ~Panicked(br)
    /\ call.res[63] = 1
    /\ ToInt32(call.res) = (0 - 2147483647) - 1

\* C5: the k-th ReadBit after Open (k from 0, no other reads in between) returns
\* bit (k mod 8) of stream byte (k div 8); more generally a ReadBit after k bits
\* have been consumed returns that bit, across refills.
C5_ReadBitIsLsbFirst ==
    (call.op = "ReadBit" /\ consumed <= SrcBits) =>
        /\ ~Panicked(br)
        /\ call.res = (Bit(src[((consumed - 1) \div 8) + 1], (consumed - 1) % 8) = 1)

\* A ReadBit that returned a set bit 3 of a byte from a refilled buffer.
C5_Witness ==
    /\ call.op = "ReadBit"
    /\ ~Panicked(br)
    /\ br.lazyPosition > 0
    /\ (consumed - 1) % 8 = 3
    /\ call.res = TRUE
    /\ Bit(src[((consumed - 1) \div 8) + 1], 4) = 0

\* The zero-width calls.
ZeroWidthCall == call.op \in {"ReadInt", "ReadSignedInt", "ReadBitsToByte"} /\ call.n = 0

\* C6: a zero-width read returns zero and does not change the position:
\* ReadInt(0), ReadSignedInt(0) and ReadBitsToByte(0) each return 0 and leave
\* ActualPosition() as it was, at any bit offset and with any buffer content.
C6_ZeroWidthReadIsZero ==
    (ZeroWidthCall /\ ~Panicked(br)) =>
        /\ ActualPosition(br) = call.pos0
        /\ call.res = (IF call.op = "ReadBitsToByte" THEN 0 ELSE ZeroWord)

\* The part of C6 that the code keeps: the position is unchanged, and ReadInt(0)
\* and ReadBitsToByte(0) return 0.
C6_ZeroWidthKeepsPosition ==
    (ZeroWidthCall /\ ~Panicked(br)) =>
        /\ ActualPosition(br) = call.pos0
        /\ call.op = "ReadInt" => call.res = ZeroWord
        /\ call.op = "ReadBitsToByte" => call.res = 0

\* C7: ReadBytes(n) returns the n bytes made of the next 8n stream bits, in
\* order, and advances by 8n, on the shortcut (byte aligned, offset + 8n <=
\* bitsInBuffer) and on the byte-by-byte path; where the shortcut is taken, the
\* byte-by-byte path gives the same bytes and the same position.
C7_ReadBytesBothPaths ==
    /\ (call.op = "ReadBytes" /\ ReadInside) =>
          /\ ~Panicked(br)
          /\ call.res = SrcBytes(call.pos0, call.n)
          /\ ActualPosition(br) = call.pos0 + 8 * call.n
    /\ Ready =>
          \A n \in BytesLens :
              (Shortcut(br, n) /\ ActualPosition(br) + 8 * n <= SrcBits) =>
                  LET fast == ReadBytesInto(br, << >>, n)
                      slow == readByteLoop(br, << >>, n, br.offset % 8 # 0)
                  IN  /\ ~Panicked(fast.r)
                      /\ ~Panicked(slow.r)
                      /\ fast.res = slow.res
                      /\ ActualPosition(fast.r) = ActualPosition(slow.r)

\* A ReadBytes(17) from a byte boundary that could not take the shortcut and
\* refilled on the way, in a source longer than the buffer.
C7_Witness ==
    /\ call.op = "ReadBytes"
    /\ call.n = 17
    /\ ReadInside
    /\ ~Panicked(br)
    /\ call.pos0 % 8 = 0
    /\ Refilled
    /\ Len(src) > Len(br.buffer)
    /\ call.res = SrcBytes(call.pos0, 17)

\* A ReadBytes(3) that took the shortcut in a source shorter than the buffer.
C7_ShortcutWitness ==
    /\ call.op = "ReadBytes"
    /\ call.n = 3
    /\ ReadInside
    /\ ~Panicked(br)
    /\ call.pos0 % 8 = 0
    /\ ~Refilled
    /\ Len(src) < Len(br.buffer)

\* C8: ReadCString(n) consumes exactly n bytes wherever the terminator lies, and
\* returns the bytes before the first zero byte among them, or all n when none
\* is zero.
C8_ReadCStringStopsAtZero ==
    (call.op = "ReadCString" /\ ReadInside) =>
        LET all == SrcBytes(call.pos0, call.n)
            got == call.res
        IN  /\ ~Panicked(br)
            /\ ActualPosition(br) = call.pos0 + 8 * call.n
            /\ Len(got) <= call.n
            /\ \A i \in 1..Len(got) : got[i] = all[i] /\ got[i] # 0
            /\ Len(got) < call.n => all[Len(got) + 1] = 0
            /\ (src = CStringSrc /\ call.pos0 = 0 /\ call.n = 7) => got = <<116, 101, 115, 116>>

\* ReadCString(7) of "test\0xx" returned "test" and consumed all 7 bytes.
C8_Witness ==
    /\ src = CStringSrc
    /\ call.op = "ReadCString"
    /\ call.n = 7
    /\ call.pos0 = 0
    /\ ~Panicked(br)
    /\ call.res = <<116, 101, 115, 116>>
    /\ ActualPosition(br) = 56

\* ReadCString(7) without a zero byte among the 7, at an odd bit offset.
C8_NoZeroWitness ==
    /\ call.op = "ReadCString"
    /\ call.n = 7
    /\ ReadInside
    /\ ~Panicked(br)
    /\ call.pos0 % 8 # 0
    /\ Len(call.res) = 7


\* ---------------------------------------------------------- claims: chunks

\* The end p + n of the chunk that the EndChunk just called has ended.
ChunkEnd == call.res.p + call.n

EndChunkCalled == call.op = "EndChunk"

\* The widths of the read that follows an EndChunk.
NextWidths == {1, 8, 17, 32}

\* From position p the reader r gives the stream's bits, for every width that the
\* stream still holds.
NextReadIsRight(r, p) ==
    \A w \in NextWidths :
        p + w <= SrcBits =>
            LET v == ReadInt(r, w) IN
            /\ ~Panicked(v.r)
            /\ v.res = SrcWord(p, w)
            /\ ActualPosition(v.r) = p + w

\* EndChunk returned on r at the end of the chunk, and the next read is right.
EndedAtChunkEnd(r) ==
    /\ ~Panicked(r)
    /\ ActualPosition(r) = ChunkEnd
    /\ NextReadIsRight(r, ChunkEnd)

\* C9: BeginChunk(n) at position p, fewer than n bits consumed, then EndChunk:
\* EndChunk returns with ActualPosition() = p + n and the next read gives the
\* stream's bits from p + n, whether the rest of the chunk was in the buffer or
\* was more than the buffer holds, over an io.Seeker (br) and over a plain
\* reader (tw).
C9_EndChunkSkipsToChunkEnd ==
    (EndChunkCalled /\ call.pos0 < ChunkEnd) =>
        /\ EndedAtChunkEnd(br)
        /\ EndedAtChunkEnd(tw)

\* The same for the chunks that end before the end of the stream.
C9_EndChunkSkipsInsideStream ==
    (EndChunkCalled /\ call.pos0 < ChunkEnd /\ ChunkEnd < SrcBits) =>
        /\ EndedAtChunkEnd(br)
        /\ EndedAtChunkEnd(tw)

\* An EndChunk that sought to a chunk end inside the stream, off a byte boundary.
C9_SeekWitness ==
    /\ EndChunkCalled
    /\ call.res.seek
    /\ ~Panicked(br)
    /\ ChunkEnd < SrcBits
    /\ ChunkEnd % 8 # 0
    /\ call.pos0 > call.res.p
    /\ ActualPosition(br) = ChunkEnd

\* An EndChunk that skipped a few bits inside the buffer.
C9_BufferWitness ==
    /\ EndChunkCalled
    /\ ~call.res.seek
    /\ ~Panicked(br)
    /\ call.pos0 < ChunkEnd
    /\ call.pos0 >= br.lazyPosition
    /\ ActualPosition(br) = ChunkEnd

ChunkBoundaryPanic == "Someone read beyond a chunk boundary"

\* EndChunk on r aborted exactly if the position was past the chunk end, did not
\* move r back, and left r where it was if it was at the chunk end.
OverrunOutcome(r) ==
    /\ (r.panic = ChunkBoundaryPanic) = (call.pos0 > ChunkEnd)
    /\ ActualPosition(r) >= call.pos0
    /\ call.pos0 = ChunkEnd => (~Panicked(r) /\ ActualPosition(r) = call.pos0)

\* C10: EndChunk panics with the chunk-boundary message when the position is
\* past the popped target, and only then; it never moves the position back; and
\* it returns without moving when the position is the target.  (The second
\* reader is looked at unless it had panicked in a read before this EndChunk.)
C10_EndChunkPanicsOnOverrun ==
    EndChunkCalled =>
        /\ OverrunOutcome(br)
        /\ tw.panic \in {"", ChunkBoundaryPanic} => OverrunOutcome(tw)

\* An EndChunk after the caller read 17 bits of a 2-bit chunk.
C10_Witness ==
    /\ EndChunkCalled
    /\ call.pos0 > ChunkEnd
    /\ call.n = 2
    /\ br.panic = ChunkBoundaryPanic
    /\ ActualPosition(br) = call.pos0

\* An EndChunk after the caller read exactly the 17 bits of the chunk.
C10_ExactWitness ==
    /\ EndChunkCalled
    /\ call.pos0 = ChunkEnd
    /\ call.n = 17
    /\ ~Panicked(br)


\* From where they stand, br and tw give the same outcome, value and position
\* for a ReadInt of every width tried.
NextReadsAgree ==
    \A w \in NextWidths :
        LET a == ReadInt(br, w)
            b == ReadInt(tw, w)
        IN  /\ Panicked(a.r) = Panicked(b.r)
            /\ ~Panicked(a.r) => (a.res = b.res /\ ActualPosition(a.r) = ActualPosition(b.r))

\* BeginChunk at p was followed by EndChunk with nothing read in between, on two
\* readers that were both running.
EndedAtOnce == EndChunkCalled /\ call.pos0 = call.res.p /\ call.tres.live

\* C11: BeginChunk(N) at p with p + N not beyond the end of the source (also
\* exactly at the end), followed at once by EndChunk: over an io.Seeker (br) and
\* over a plain reader (tw) the outcome is the same, both stand at p + N, and
\* the reads that follow give the same results.
C11_SeekIsNotObservable ==
    EndedAtOnce =>
        /\ Panicked(br) = Panicked(tw)
        /\ ~Panicked(br) =>
              /\ ActualPosition(br) = ChunkEnd
              /\ ActualPosition(tw) = ChunkEnd
              /\ NextReadsAgree

\* The same for the chunks after whose end the source has at least a sled of
\* bytes left.
C11_SeekAgreesBeforeLastSled ==
    (EndedAtOnce /\ ChunkEnd + sledBits < SrcBits) =>
        /\ ~Panicked(br)
        /\ ~Panicked(tw)
        /\ ActualPosition(br) = ChunkEnd
        /\ ActualPosition(tw) = ChunkEnd
        /\ NextReadsAgree


\* The end of the innermost chunk the caller has begun and not ended.
InnermostEnd == begun[Len(begun)].p + begun[Len(begun)].n

\* C12: ChunkFinished() is true exactly if ActualPosition() is at or past the
\* target on top of the chunk stack, which is the end of the innermost chunk,
\* and it changes neither the position nor the chunk stack.
C12_ChunkFinishedIffReached ==
    call.op = "ChunkFinished" =>
        /\ ~Panicked(br)
        /\ call.res.fin = (call.pos0 >= top(call.res.stack))
        /\ top(call.res.stack) = InnermostEnd
        /\ ActualPosition(br) = call.pos0
        /\ br.chunkTargets = call.res.stack

\* ChunkFinished answered true exactly at the end of a chunk.
C12_Witness ==
    /\ call.op = "ChunkFinished"
    /\ call.res.fin
    /\ call.pos0 = InnermostEnd
    /\ InnermostEnd > 0

\* ChunkFinished answered false inside a chunk, and true past its end.
C12_InsideWitness ==
    /\ call.op = "ChunkFinished"
    /\ ~call.res.fin
    /\ call.pos0 > begun[Len(begun)].p

C12_PassedWitness ==
    /\ call.op = "ChunkFinished"
    /\ call.res.fin
    /\ call.pos0 > InnermostEnd


\* -------------------------------------------------------- claims: lifecycle

\* The two panics of OpenWithBuffer about the buffer.
ConfigPanics == {"Buffer must be a multiple of sled", "Buffer must be larger than 2*sled bytes"}

\* A buffer length that is not a multiple of the sled width or is not greater than
\* twice the sled width.
BadSize(n) == n % sled # 0 \/ n <= 2 * sled

\* C13: Open panics about the buffer exactly when its length is not a multiple
\* of the sled width or is not greater than twice the sled width, and it does
\* so before it reads from the source: the reader that was new (tw) is as new
\* but for the panic, nothing attached and nothing read.
C13_OpenChecksBufferFirst ==
    call.op = "Open" =>
        /\ (br.panic \in ConfigPanics) = BadSize(call.n)
        /\ (tw.panic \in ConfigPanics) = BadSize(call.n)
        /\ BadSize(call.n) => tw = Panic(NewReader, tw.panic)
        /\ ~BadSize(call.n) => (tw.open /\ tw.srcPos > 0)

\* Open with a buffer of exactly twice the sled panicked.
C13_Witness ==
    /\ call.op = "Open"
    /\ call.n = 2 * sled
    /\ br.panic = "Buffer must be larger than 2*sled bytes"
    /\ br.srcPos = 0

\* Open with a buffer that is no multiple of the sled panicked, and Open with
\* three sleds did not.
C13_MultipleWitness ==
    /\ call.op = "Open"
    /\ call.n = 3 * sled - 1
    /\ br.panic = "Buffer must be a multiple of sled"

C13_ValidWitness ==
    /\ call.op = "Open"
    /\ call.n = 3 * sled
    /\ ~Panicked(br)


\* ------------------------------------------------------ claims: end of source

\* The read just made needed a bit the source does not have.
ReadPastEnd == call.op \in ReadOps /\ call.pos0 + CallWidth > SrcBits

\* C14: a read that needs a bit at or after position 8L aborts with unexpected
\* EOF, and no read that returns leaves ActualPosition() beyond 8L, for every
\* length L >= 1 of the source, also below the sled width.
C14_ReadPastEndAborts ==
    /\ ReadPastEnd => br.panic = "unexpected EOF"
    /\ (call.op \in ReadOps /\ ~Panicked(br)) => ActualPosition(br) <= SrcBits

\* The same for the sources of at least a sled of bytes.
C14_ReadPastEndAbortsFromSled ==
    Len(src) >= sled =>
        /\ ReadPastEnd => br.panic = "unexpected EOF"
        /\ (call.op \in ReadOps /\ ~Panicked(br)) => ActualPosition(br) <= SrcBits


\* ------------------------------------------------------------ claims: Close

\* br has the counters and the chunk stack of a new reader.
IsReset == br.offset = 0 /\ br.bitsInBuffer = 0 /\ br.lazyPosition = 0 /\ br.chunkTargets = << >>

\* br was closed and opened again.
Reopened == lives > 1 /\ br.open

\* C15: Close() resets offset, bitsInBuffer, lazyPosition and the chunk stack,
\* whether the source is an io.ReadCloser or not; so after reads and chunks,
\* Close and Open on a fresh source the reader stands at position 0 with an
\* empty chunk stack and reads what a reader opened for the first time (tw)
\* reads.
C15_CloseResetsReader ==
    /\ call.op = "Close" => IsReset
    /\ (Reopened /\ call.op = "Open" /\ ~Panicked(br)) =>
          /\ ActualPosition(br) = 0
          /\ br.chunkTargets = << >>
          /\ NextReadsAgree
    /\ (Reopened /\ call.op = "ReadInt") =>
          /\ Panicked(br) = Panicked(tw)
          /\ ~Panicked(br) =>
                (call.res = call.tres /\ ActualPosition(br) = ActualPosition(tw))

\* The same for the Close of a reader whose source is not an io.ReadCloser: all
\* is reset, and an Open that follows leaves what it leaves on a new reader.
C15_PlainCloseResetsReader ==
    (call.op = "Close" /\ call.n = 0) =>
        /\ IsReset
        /\ \A size \in BufSizes : Open(br, size, TRUE, 0) = Open(NewReader, size, TRUE, 0)

\* A reader that had refilled and begun a chunk was closed over a plain source.
C15_PlainCloseWitness ==
    /\ call.op = "Close"
    /\ call.n = 0
    /\ call.pos0 > 8 * Len(src)
    /\ IsReset


\* ------------------------------------------------------- claims: short Open

\* Open has just filled the buffer from a source shorter than the buffer.
ShortOpen == call.op = "Open" /\ Len(src) < Len(br.buffer)

\* From where br stands at position 0, all bytes of the source can be read, and
\* then not one bit more.
ReadsAllAndNoMore ==
    LET all == ReadBytes(br, Len(src)) IN
    /\ ~Panicked(all.r)
    /\ all.res = src
    /\ ReadBit(all.r).r.panic = "unexpected EOF"

\* C16: when the first fill in Open gets k bytes, fewer than the buffer holds,
\* Open returns, endReached is set and bitsInBuffer is 8k with no sled held
\* back, so every bit of the source can be read and none beyond.
C16_ShortOpenCountsAllBytes ==
    ShortOpen =>
        /\ ~Panicked(br)
        /\ br.endReached
        /\ br.bitsInBuffer = 8 * Len(src)
        /\ ReadsAllAndNoMore

\* What Open leaves for such a source of at least a sled of bytes: the sled is
\* held back and endReached is not yet set, and all bits of the source can be
\* read and none beyond.
C16_ShortOpenFromSled ==
    (ShortOpen /\ Len(src) >= sled) =>
        /\ ~Panicked(br)
        /\ ~br.endReached
        /\ br.bitsInBuffer = 8 * Len(src) - sledBits
        /\ ReadsAllAndNoMore

\* What Open leaves for a source of fewer bytes than a sled: bitsInBuffer is 8k,
\* endReached is not set, and a bit beyond the source can be read.
C16_ShortOpenBelowSled ==
    (ShortOpen /\ Len(src) < sled) =>
        /\ ~Panicked(br)
        /\ ~br.endReached
        /\ br.bitsInBuffer = 8 * Len(src)
        /\ ~Panicked(ReadBit(ReadBytes(br, Len(src)).r).r)


\* --------------------------------------------------------- claims: window

\* The bytes of r's buffer that the window and its sled cover and that lie
\* inside the source are the source's bytes from lazyPosition on.
WindowHolds(r) ==
    (r.open /\ ~Panicked(r)) =>
        /\ r.lazyPosition % 8 = 0
        /\ \A i \in 0..(Len(r.buffer) - 1) :
              (8 * i < r.bitsInBuffer + 8 * sled /\ (r.lazyPosition \div 8) + i < Len(src)) =>
                  r.buffer[i + 1] = src[(r.lazyPosition \div 8) + i + 1]

\* C17: in every state after Open, every buffer byte i with
\* 8i < bitsInBuffer + 8*sled that lies inside the source is source byte
\* lazyPosition/8 + i, on the reader that seeks (br) and on the one that refills
\* (tw); so after a refill the first sled bytes are the source bytes before the
\* ones just read.
C17_WindowHoldsSourceBytes == WindowHolds(br) /\ WindowHolds(tw)

\* The reader refilled from a window that was not full, and its sled lies inside
\* the source.
C17_Witness ==
    /\ tw.open
    /\ ~Panicked(tw)
    /\ tw.lazyPosition > 8 * (Len(tw.buffer) - sled)
    /\ tw.lazyPosition % (8 * (Len(tw.buffer) - sled)) # 0
    /\ tw.lazyPosition + sledBits <= SrcBits
    /\ call.op = "ReadInt"

\* The reader sought and read a new window.
C17_SeekWitness ==
    /\ EndChunkCalled
    /\ call.res.seek
    /\ ~Panicked(br)
    /\ br.bitsInBuffer > 0
    /\ br.lazyPosition > 0


\* --------------------------------------------------------- claims: refill

\* One refillBuffer from r keeps ActualPosition, moves lazyPosition forward by
\* the bitsInBuffer of before, takes as much from offset and leaves it at least
\* 0, and keeps the chunk stack.
RefillKeepsFrame(r) ==
    LET q == refillBuffer(r) IN
    /\ ActualPosition(q) = ActualPosition(r)
    /\ LazyPosition(q) = LazyPosition(r) + r.bitsInBuffer
    /\ q.offset = r.offset - r.bitsInBuffer
    /\ q.offset >= 0
    /\ q.chunkTargets = r.chunkTargets

\* The same for every refill that advance makes from r.
RECURSIVE FrameAlongRefills(_)
FrameAlongRefills(r) ==
    IF Panicked(r) \/ ~PastBuffer(r) THEN TRUE
    ELSE RefillKeepsFrame(r) /\ FrameAlongRefills(refillBuffer(r))

\* The bits by which a call moves offset before it refills.
RefillWidths == {1, 8, 32, 200}

\* C18: refillBuffer leaves ActualPosition() unchanged: it takes the bitsInBuffer
\* of before the refill from offset and adds it to lazyPosition, offset stays
\* >= 0 and the chunk stack is untouched; for every refill of every call that
\* the caller can make next, on both readers.
C18_RefillKeepsPosition ==
    Ready =>
        \A w \in RefillWidths :
            /\ FrameAlongRefills([br EXCEPT !.offset = @ + w])
            /\ FrameAlongRefills([tw EXCEPT !.offset = @ + w])

\* A reader with a chunk begun that stands at the end of its second window: the
\* next bit read refills.
C18_Witness ==
    /\ Ready
    /\ br.chunkTargets # << >>
    /\ br.lazyPosition > 0
    /\ br.offset = br.bitsInBuffer
    /\ ~br.endReached
    /\ ~Panicked(refillBuffer([br EXCEPT !.offset = @ + 1]))


\* --------------------------------------------------- claims: offset bound

\* r's offset lies in its window.
OffsetInWindow(r) == 0 <= r.offset /\ r.offset <= r.bitsInBuffer

\* C19: when Open or a read has returned, 0 <= offset <= bitsInBuffer: a refill
\* was made before the call returned if offset had gone past bitsInBuffer; for
\* ReadInt as for the calls that go through advance.
C19_OffsetStaysInWindow ==
    (call.op \in ReadOps \cup {"Open"} /\ ~Panicked(br)) => OffsetInWindow(br)

\* The same for the calls that move offset through advance alone.
C19_OffsetStaysInWindowByAdvance ==
    (call.op \in {"Open", "ReadBit", "ReadSignedInt"} /\ ~Panicked(br)) => OffsetInWindow(br)

\* The same for an EndChunk that skipped to the end of its chunk, on the reader
\* that seeks and on the one that refills.
C19_OffsetStaysInWindowBySkip ==
    (EndChunkCalled /\ call.pos0 < ChunkEnd) =>
        /\ ~Panicked(br) => OffsetInWindow(br)
        /\ (call.tres.live /\ ~Panicked(tw)) => OffsetInWindow(tw)


\* ---------------------------------------------------- claims: memory safety

\* The panics of a load or a slice outside the buffer.
BoundsPanics == {"index out of range", "slice bounds out of range"}

\* The byte index ReadSignedInt loads from: (offset >> 3) &^ 3.
SignedIndex(r) == (r.offset \div 8) - ((r.offset \div 8) % 4)

\* Every decode that starts where r stands loads inside the buffer.
LoadsInsideBuffer(r) ==
    /\ r.offset >= 0
    /\ (r.offset \div 8) + 8 <= Len(r.buffer)
    /\ SignedIndex(r) + 8 <= Len(r.buffer)
    /\ (r.offset \div 8) < Len(r.buffer)
    /\ \A n \in BytesLens : Shortcut(r, n) => (r.offset \div 8) + n <= Len(r.buffer)

\* C20: in every state in which a decode can start, the 8-byte load of ReadInt
\* and ReadSignedInt, the byte of ReadBit and of the aligned single-byte read,
\* and the copy of ReadBytesInto's shortcut lie inside the buffer, for both buffer
\* sizes and after the end of the source has been reached; and no call, whose
\* later decodes start in between, ever ends in a panic for a load outside the
\* buffer.
C20_DecodesStayInsideBuffer ==
    /\ Ready => (LoadsInsideBuffer(br) /\ (~Panicked(tw) => LoadsInsideBuffer(tw)))
    /\ br.panic \notin BoundsPanics
    /\ tw.panic \notin BoundsPanics

\* A decode is about to start whose 8-byte load ends with the last byte of the
\* buffer.
C20_Witness ==
    /\ Ready
    /\ (br.offset \div 8) + 8 = Len(br.buffer)
    /\ br.offset = br.bitsInBuffer

\* A decode is about to start at the end of the source, after the last refill.
C20_EndWitness ==
    /\ Ready
    /\ br.endReached
    /\ br.offset = br.bitsInBuffer
    /\ ActualPosition(br) = SrcBits

\* ------------------------------------------------- claims: the chunk stack

\* The targets the caller's open chunks stand for, oldest first.
OpenTargets == [i \in 1..Len(begun) |-> begun[i].p + begun[i].n]

\* The reader's stack holds the targets of the chunks begun and not yet ended,
\* in the order they were begun.
StackIsOpenChunks(r) == r.chunkTargets = OpenTargets

\* A step that is a call of BeginChunk: it pushes the position plus n and leaves
\* every other field, and the entries below, as they were.
BeginChunkPushes(r, rNext) ==
    rNext = [r EXCEPT !.chunkTargets = Append(@, ActualPosition(r) + call'.n)]

\* A step that is a call of EndChunk: it removes the last entry and no other, and
\* the position is held against that entry alone: past it the call aborts, and
\* from before it the call ends at it whatever the entries below say.
EndChunkPops(r, rNext) ==
    LET last == r.chunkTargets[Len(r.chunkTargets)] IN
    /\ rNext.chunkTargets = SubSeq(r.chunkTargets, 1, Len(r.chunkTargets) - 1)
    /\ (rNext.panic = ChunkBoundaryPanic) <=> (ActualPosition(r) > last)
    /\ ~Panicked(rNext) => ActualPosition(rNext) = last

\* C21: the chunk stack is last-in-first-out.  In every state the stack of the
\* reader is the list of the targets (position at BeginChunk plus n) of the
\* chunks begun and not yet ended, oldest first, so that its depth is the number
\* of BeginChunk calls minus the number of EndChunk calls; BeginChunk(n) appends
\* ActualPosition() + n and changes nothing else; EndChunk removes exactly the
\* entry pushed last and compares the position with that entry only.
C21_ChunkStackIsLifo ==
    /\ [](StackIsOpenChunks(br) /\ (~Panicked(tw) => StackIsOpenChunks(tw)))
    /\ [][ /\ (call.op = "" /\ call'.op = "BeginChunk")
              => (BeginChunkPushes(br, br') /\ BeginChunkPushes(tw, tw'))
           /\ (call.op = "" /\ call'.op = "EndChunk")
              => (/\ EndChunkPops(br, br')
                  /\ call'.tres.live => tw'.chunkTargets = br'.chunkTargets) ]_vars

\* EndChunk has ended the inner of two nested chunks at its own end, which lies
\* past the end of the outer chunk that is still open.
C21_Witness ==
    /\ EndChunkCalled
    /\ ~Panicked(br)
    /\ Len(br.chunkTargets) = 1
    /\ ActualPosition(br) = ChunkEnd
    /\ ChunkEnd > br.chunkTargets[1]

\* Two chunks with different ends are open, the inner one ending first.
C21_NestedWitness ==
    /\ Ready
    /\ Len(br.chunkTargets) = 2
    /\ br.chunkTargets[2] < br.chunkTargets[1]

\* ------------------------------------------------ skipping: the state machine

\* The sources skipped over.
SkipSources == {Pattern(25), Pattern(27), Pattern(MaxSrcLen)}

\* The bits skipped by one call.
SkipLens == {0, 1, 65, 136, 200}

InitSkip ==
    /\ src \in SkipSources
    /\ br = NewReader
    /\ tw = NewReader
    /\ call = NoCall
    /\ consumed = 0
    /\ begun = <<>>
    /\ inside = 0
    /\ lives = 0

\* Open on a bytes.Reader used as an io.Seeker or hidden behind a plain
\* io.Reader; the second reader has the same buffer size over a plain reader.
OpenSkipStep ==
    /\ ~br.open
    /\ ~Panicked(br)
    /\ call.op = ""
    /\ \E size \in BufSizes, seekable \in BOOLEAN :
          /\ br' = Open(br, size, seekable, 0)
          /\ tw' = Open(tw, size, FALSE, 0)
          /\ call' = [op |-> "Open", n |-> size, pos0 |-> ActualPosition(br), res |-> 0, tres |-> 0]
    /\ consumed' = 0
    /\ lives' = lives + 1
    /\ UNCHANGED <<src, begun, inside>>

\* Eight calls of ReadBit, the results dropped.
ReadBitTimes8(r) ==
    LET r1 == ReadBit(r).r
        r2 == ReadBit(r1).r
        r3 == ReadBit(r2).r
        r4 == ReadBit(r3).r
        r5 == ReadBit(r4).r
        r6 == ReadBit(r5).r
        r7 == ReadBit(r6).r
    IN  ReadBit(r7).r

\* n calls of ReadBit, the results dropped.
RECURSIVE ReadBitTimes(_, _)
ReadBitTimes(r, n) ==
    IF n = 0 \/ Panicked(r) THEN r
    ELSE IF n >= 8 THEN ReadBitTimes(ReadBitTimes8(r), n - 8)
    ELSE ReadBitTimes(ReadBit(r).r, n - 1)

\* Skip(n) on br, while the second reader consumes the n bits with ReadBit.  The
\* call records whether Skip sought, by how many bytes, and where the
\* underlying reader stood before and after.
SkipStep ==
    /\ Ready
    /\ \E n \in SkipLens :
          /\ br' = Skip(br, n)
          /\ tw' = ReadBitTimes(tw, n)
          /\ call' = [op |-> "Skip", n |-> n, pos0 |-> ActualPosition(br),
                      res  |-> [seek |-> UseSeek(br, n), dist |-> SeekDistance(br, n),
                                from |-> br.srcPos, to |-> Skip(br, n).srcPos,
                                seekable |-> br.seekable,
                                buffered |-> br.bitsInBuffer - br.offset],
                      tres |-> [live |-> ~Panicked(tw)]]
          /\ consumed' = consumed + n
    /\ UNCHANGED <<src, begun, inside, lives>>

NextSkip ==
    \/ OpenSkipStep
    \/ Return
    \/ ChunkReadBitStep
    \/ ChunkReadIntStep
    \/ SkipStep

SpecSkip == InitSkip /\ [][NextSkip]_vars

\* ----------------------------------------------------------- claims: Skip

SkipCalled == call.op = "Skip"

\* Where a Skip that has just been called was to end.
SkipEnd == call.pos0 + call.n

\* After Skip on br, and n calls of ReadBit on tw, both readers stand at the
\* position before the call plus n, and a read of every width the source still
\* holds gives on both the source's bits from there.
SkippedLikeReadBits ==
    /\ ~Panicked(br)
    /\ ~Panicked(tw)
    /\ ActualPosition(br) = SkipEnd
    /\ ActualPosition(tw) = SkipEnd
    /\ NextReadIsRight(br, SkipEnd)
    /\ NextReadIsRight(tw, SkipEnd)

\* C22: Skip(n), n >= 0, from position p with p + n not beyond the end of the
\* source returns with ActualPosition() = p + n, whether it sought or advanced,
\* and the reads that follow give the source's bits from p + n, as they do
\* after n calls of ReadBit.
C22_SkipMovesByN == (SkipCalled /\ SkipEnd <= SrcBits) => SkippedLikeReadBits

\* The same for the calls of Skip that end before the end of the source.
C22_SkipMovesByNBeforeEnd == (SkipCalled /\ SkipEnd < SrcBits) => SkippedLikeReadBits

\* The same for the calls of Skip that did not seek.
C22_SkipMovesByNOnAdvance ==
    (SkipCalled /\ SkipEnd <= SrcBits /\ ~call.res.seek) => SkippedLikeReadBits

\* A Skip that sought to a position off a byte boundary before the end of the
\* source, after earlier reads.
C22_SeekWitness ==
    /\ SkipCalled
    /\ call.res.seek
    /\ call.pos0 > 0
    /\ SkipEnd < SrcBits
    /\ SkipEnd % 8 # 0
    /\ ~Panicked(br)

\* A Skip that advanced through a refill on a source that is an io.Seeker.
C22_AdvanceWitness ==
    /\ SkipCalled
    /\ ~call.res.seek
    /\ call.res.seekable
    /\ call.n > call.res.buffered
    /\ ~Panicked(br)

\* -------------------------------------------------- claims: the seek path

\* What the call of Skip recorded agrees with the test the claim states, and a
\* seek is by the stated distance, which is not negative.
SeekIsForward ==
    LET unbuffered == call.n - call.res.buffered IN
    /\ call.res.seek <=> (call.res.seekable /\ call.n > call.res.buffered + 8 * sled)
    /\ call.res.seek =>
          /\ call.res.dist = (unbuffered \div 8) - sled
          /\ call.res.dist >= 0

\* A step that is a call of Skip(n) on r: if it seeks, the underlying reader is
\* moved from where it stood by the distance and read from there, so that it
\* never stands before where it stood; if not, the step is advance(n), which
\* reaches the underlying reader through Read alone.
SkipStepSeeksOrAdvances(r, rNext) ==
    IF call'.res.seek
    THEN /\ rNext.lazyPosition = (r.srcPos + call'.res.dist) * 8
         /\ rNext.srcPos >= r.srcPos + call'.res.dist
         /\ rNext.srcPos >= r.srcPos
    ELSE rNext = advance(r, call'.n)

\* C23: Skip(n) seeks only when the source is an io.Seeker and n is more than
\* the buffered bits (bitsInBuffer - offset) plus 8 * sled; the distance it
\* then passes to Seek, ((n - buffered) >> 3) - sled bytes relative to the
\* current position, is never negative, so the source never moves backward; in
\* every other case Skip is advance(n) and does not seek.
C23_SeekOnlyForwardAndFar ==
    /\ [](SkipCalled => SeekIsForward)
    /\ [][(call.op = "" /\ call'.op = "Skip") => SkipStepSeeksOrAdvances(br, br')]_vars

\* A Skip that sought by a distance of 0 bytes: only just more than the buffered
\* bits and the sled were skipped.
C23_Witness ==
    /\ SkipCalled
    /\ call.res.seek
    /\ call.res.dist = 0
    /\ ~Panicked(br)

\* A Skip on an io.Seeker of exactly the buffered bits plus the sled, which did
\* not seek.
C23_EdgeWitness ==
    /\ SkipCalled
    /\ call.res.seekable
    /\ call.n = call.res.buffered + 8 * sled
    /\ ~call.res.seek
    /\ ~Panicked(br)

\* A Skip of more than buffer and sled hold on a source that is no io.Seeker.
C23_PlainWitness ==
    /\ SkipCalled
    /\ ~call.res.seekable
    /\ call.n > call.res.buffered + 8 * sled
    /\ ~Panicked(br)

\* A Skip that sought from a state in which offset was above bitsInBuffer.
C23_NegativeBufferedWitness ==
    /\ SkipCalled
    /\ call.res.buffered < 0
    /\ call.res.seek

\* --------------------------------------------- short reads: the state machine

\* The sources read in pieces.
ShortSources == {Pattern(12), Pattern(27)}

\* The most bytes one Read of the second reader's source returns.
ShortReads == {1, sled, sled + 1}

InitShort ==
    /\ src \in ShortSources
    /\ br = NewReader
    /\ tw = NewReader
    /\ call = NoCall
    /\ consumed = 0
    /\ begun = <<>>
    /\ inside = 0
    /\ lives = 0

\* Open on a source that fills the span asked for; the second reader has the
\* same buffer size over a source of the same bytes whose Read returns at most
\* maxRead bytes, and io.EOF only once all bytes have been returned.
OpenShortStep ==
    /\ ~br.open
    /\ ~Panicked(br)
    /\ call.op = ""
    /\ \E size \in BufSizes, maxRead \in ShortReads :
          /\ br' = Open(br, size, FALSE, 0)
          /\ tw' = Open(tw, size, FALSE, maxRead)
          /\ call' = [op |-> "Open", n |-> size, pos0 |-> ActualPosition(br), res |-> 0, tres |-> 0]
    /\ consumed' = 0
    /\ lives' = lives + 1
    /\ UNCHANGED <<src, begun, inside>>

NextShort ==
    \/ OpenShortStep
    \/ Return
    \/ ReadBitStep
    \/ ReadIntStep
    \/ ReadSignedIntStep
    \/ ReadSingleByteStep
    \/ ReadBytesStep

SpecShort == InitShort /\ [][NextShort]_vars

\* ---------------------------------------------------- claims: short reads

\* The call that was just made gave on the reader of the short-reading source
\* what it gave on the reader of the source that fills every span: no panic,
\* the same value, the same position.
SameAsFullReads ==
    /\ ~Panicked(tw)
    /\ call.tres = call.res
    /\ ActualPosition(tw) = ActualPosition(br)

\* C24: for the same bytes, a source whose Read returns fewer bytes than asked
\* for (down to one byte per call, io.EOF only at the end) gives the same values
\* and positions as a source that fills every span, for every sequence of
\* ReadBit, ReadInt(n <= 32), ReadSignedInt, ReadSingleByte and ReadBytes inside
\* the source.
C24_ShortReadsAreNotObservable == ReadInside => SameAsFullReads

\* The same for the sources that return at least a sled of bytes per Read
\* while they have that many left, and the reads of at least one bit.
C24_ShortReadsFromSledAgreeOnBits ==
    (ReadInside /\ tw.maxRead >= sled /\ ~ZeroWidthCall) => SameAsFullReads

\* ------------------------------------- advance, refill by refill: the state

\* The sources advanced over.
AdvanceSources == {Pattern(1), Pattern(12), Pattern(27)}

\* The bits one call of advance is asked to move.
AdvanceLens == {1, 64, 200, 1000}

\* The most bytes one Read returns: as many as asked for (0), or one.
AdvanceReads == {0, 1}

InitAdvance ==
    /\ src \in AdvanceSources
    /\ br = NewReader
    /\ tw = NewReader
    /\ call = NoCall
    /\ consumed = 0
    /\ begun = <<>>
    /\ inside = 0
    /\ lives = 0

\* Open on a source that is not an io.Seeker.
OpenAdvanceStep ==
    /\ ~br.open
    /\ ~Panicked(br)
    /\ call.op = ""
    /\ \E size \in BufSizes, maxRead \in AdvanceReads :
          /\ br' = Open(br, size, FALSE, maxRead)
          /\ call' = [op |-> "Open", n |-> size, pos0 |-> ActualPosition(br), res |-> 0, tres |-> 0]
    /\ consumed' = 0
    /\ lives' = lives + 1
    /\ UNCHANGED <<src, tw, begun, inside>>

\* advance(bits) is entered: offset is moved, the loop is about to be tested.
\* The call records the reader it was made on.
AdvanceCallStep ==
    /\ Ready
    /\ \E bits \in AdvanceLens :
          /\ br' = [br EXCEPT !.offset = @ + bits]
          /\ call' = [op |-> "advance", n |-> bits, pos0 |-> ActualPosition(br),
                      res |-> 0, tres |-> br]
          /\ consumed' = consumed + bits
    /\ UNCHANGED <<src, tw, begun, inside, lives>>

\* One turn of advance's loop: the test holds and refillBuffer is run.
RefillStep ==
    /\ call.op = "advance"
    /\ ~Panicked(br)
    /\ PastBuffer(br)
    /\ br' = refillBuffer(br)
    /\ UNCHANGED <<src, tw, call, consumed, begun, inside, lives>>

\* The test of advance's loop fails: advance is done.
AdvanceDoneStep ==
    /\ call.op = "advance"
    /\ ~Panicked(br)
    /\ ~PastBuffer(br)
    /\ call' = [call EXCEPT !.op = "advanced"]
    /\ UNCHANGED <<src, br, tw, consumed, begun, inside, lives>>

\* Open or advance returns to the caller.
AdvanceReturn ==
    /\ call.op \in {"Open", "advanced"}
    /\ ~Panicked(br)
    /\ call' = NoCall
    /\ UNCHANGED <<src, br, tw, consumed, begun, inside, lives>>

NextAdvance ==
    \/ OpenAdvanceStep
    \/ AdvanceCallStep
    \/ RefillStep
    \/ AdvanceDoneStep
    \/ AdvanceReturn

\* The test of advance's loop holds in a call that is running.
LoopTest == call.op = "advance" /\ ~Panicked(br) /\ PastBuffer(br)

\* The reader runs on its own: a call that can take its next step takes it.  The
\* second condition is weak fairness of RefillStep with its enabling condition
\* written out: a turn of the loop can be taken exactly when the loop's test
\* holds, because a refill never leaves the reader as it was.
SpecAdvance ==
    /\ InitAdvance
    /\ [][NextAdvance]_vars
    /\ WF_vars(AdvanceDoneStep)
    /\ (([]<>~LoopTest) \/ ([]<><<RefillStep>>_vars))

\* ---------------------------------------------------- claims: termination

Advancing == call.op = "advance"

Advanced == call.op = "advanced"

\* What bounds the refills still to come: the bytes the source has not yet
\* returned, and the one io.EOF that is taken without a panic.
Remaining(r) == (Len(src) - r.srcPos) + (IF r.endReached THEN 0 ELSE 1)

\* Every turn of the loop ends the call in a panic or brings the source nearer
\* to its end.
RefillMakesProgress ==
    LoopTest =>
        LET after == refillBuffer(br) IN
        Panicked(after) \/ Remaining(after) < Remaining(br)

\* C25: on a finite source, whose Read reports io.EOF once its bytes are read,
\* the loop of advance ends after finitely many refills, for every number of
\* bits and also when the source returns one byte per Read: every call of
\* advance that has been entered comes to its end, either with offset <=
\* bitsInBuffer or with the panic for an unexpected end, and with no other;
\* and every refill on the way is one of at most Len(src) + 1 that do not
\* panic.
C25_AdvanceTerminates ==
    /\ Advancing ~> (Advanced \/ Panicked(br))
    /\ [](Advanced => ~PastBuffer(br))
    /\ []((Advancing /\ Panicked(br)) => br.panic = "unexpected EOF")
    /\ []RefillMakesProgress

\* Taken refill by refill, advance ends in the state that the loop taken as a
\* whole gives.
C25_StepwiseIsAdvance == Advanced => br = advance(call.tres, call.n)

\* An advance over a source of one byte per Read has ended after eight refills
\* or more without a panic.
C25_Witness ==
    /\ Advanced
    /\ br.maxRead = 1
    /\ br.lazyPosition >= call.tres.lazyPosition + 8 * sled

\* An advance of more bits than the source has left has ended in the panic for
\* an unexpected end, after refills that read the rest of the source.
C25_EndWitness ==
    /\ Advancing
    /\ br.panic = "unexpected EOF"
    /\ call.pos0 + call.n > SrcBits
    /\ br.srcPos > call.tres.srcPos

====
